---- MODULE Spec2Model ----
(***************************************************************************)
(* A model of j2i (src/j2i.py): the template indexer, the YAML tag         *)
(* registrar and loader, the object classifier, the renderer loop, the     *)
(* output path mapper, the archiver and the to_linux_ifname filter.        *)
(*                                                                         *)
(* Strings are sequences of one-character strings, so that prefix tests,   *)
(* extension splitting, joining and case folding are computed character by *)
(* character as the Python string and os.path functions compute them.      *)
(***************************************************************************)
EXTENDS Integers, Sequences, FiniteSets, TLC

---------------------------------------------------------------------------
(* Bounds of the model *)

\* the largest number of files in a templates directory
MaxFiles == 2
\* the number of main() invocations in one process
MaxRuns == 2
\* the longest output path given to write_content in SpecWrite
MaxPathLen == 5
\* the longest free prefix of an interface name in SpecIfName
MaxPrefixLen == 2
\* the longest run of alphanumerics following the prefix in SpecIfName
MaxPad == 14

---------------------------------------------------------------------------
(* Python string primitives *)

StartsWith(s, p) == Len(p) <= Len(s) /\ SubSeq(s, 1, Len(p)) = p

EndsWith(s, p) == Len(p) <= Len(s) /\ SubSeq(s, Len(s) - Len(p) + 1, Len(s)) = p

\* the largest index of character c in s, 0 when there is none (str.rfind + 1)
RFind(s, c) ==
  LET hits == {i \in 1..Len(s) : s[i] = c}
  IN  IF hits = {} THEN 0 ELSE CHOOSE i \in hits : \A j \in hits : j <= i

Whitespace == {" ", "\n", "\t"}

RECURSIVE LStripSet(_, _)
LStripSet(s, cs) ==
  IF s # <<>> /\ s[1] \in cs THEN LStripSet(Tail(s), cs) ELSE s

RECURSIVE RStripSet(_, _)
RStripSet(s, cs) ==
  IF s # <<>> /\ s[Len(s)] \in cs THEN RStripSet(SubSeq(s, 1, Len(s) - 1), cs) ELSE s

\* str.strip()
Strip(s) == RStripSet(LStripSet(s, Whitespace), Whitespace)

LowerChar(c) ==
  CASE c = "F" -> "f"
    [] c = "B" -> "b"
    [] c = "X" -> "x"
    [] c = "Z" -> "z"
    [] OTHER -> c

\* str.lower()
Lower(s) == [i \in 1..Len(s) |-> LowerChar(s[i])]

\* str.split(sep) for a one-character separator
RECURSIVE SplitOn(_, _)
SplitOn(s, c) ==
  LET hits == {i \in 1..Len(s) : s[i] = c}
  IN  IF hits = {} THEN <<s>>
      ELSE LET i == CHOOSE k \in hits : \A j \in hits : k <= j
           IN  <<SubSeq(s, 1, i - 1)>> \o SplitOn(SubSeq(s, i + 1, Len(s)), c)

\* sep.join(list)
RECURSIVE JoinWith(_, _)
JoinWith(parts, sep) ==
  IF parts = <<>> THEN <<>>
  ELSE IF Len(parts) = 1 THEN parts[1]
  ELSE parts[1] \o sep \o JoinWith(Tail(parts), sep)

\* [x for x in list if x]
RECURSIVE NonEmpty(_)
NonEmpty(parts) ==
  IF parts = <<>> THEN <<>>
  ELSE IF parts[1] = <<>> THEN NonEmpty(Tail(parts))
  ELSE <<parts[1]>> \o NonEmpty(Tail(parts))

\* an enumeration of a finite set, in an order fixed by the set
RECURSIVE SeqOf(_)
SeqOf(S) ==
  IF S = {} THEN <<>>
  ELSE LET x == CHOOSE y \in S : TRUE IN <<x>> \o SeqOf(S \ {x})

Range(f) == {f[i] : i \in DOMAIN f}

---------------------------------------------------------------------------
(* posixpath *)

Sep == "/"
ParDir == <<".", ".">>
CurDir == <<".">>

\* os.getcwd() of the process
Cwd == <<"/", "w">>

\* os.path.join(a, b)
PathJoin(a, b) ==
  IF StartsWith(b, <<Sep>>) THEN b
  ELSE IF a = <<>> \/ EndsWith(a, <<Sep>>) THEN a \o b
  ELSE a \o <<Sep>> \o b

\* os.path.splitext(p): the extension starts at the last dot of the last
\* component, unless only dots precede it in that component
Splitext(p) ==
  LET sepIndex == RFind(p, Sep)
      dotIndex == RFind(p, ".")
  IN  IF dotIndex > sepIndex
         /\ \E k \in (sepIndex + 1)..(dotIndex - 1) : p[k] # "."
      THEN <<SubSeq(p, 1, dotIndex - 1), SubSeq(p, dotIndex, Len(p))>>
      ELSE <<p, <<>>>>

RECURSIVE NormComps(_, _, _)
NormComps(comps, acc, absolute) ==
  IF comps = <<>> THEN acc
  ELSE LET c == comps[1]
           rest == Tail(comps)
       IN  IF c = <<>> \/ c = CurDir THEN NormComps(rest, acc, absolute)
           ELSE IF c # ParDir
                   \/ (~absolute /\ acc = <<>>)
                   \/ (acc # <<>> /\ acc[Len(acc)] = ParDir)
                THEN NormComps(rest, Append(acc, c), absolute)
           ELSE IF acc # <<>>
                THEN NormComps(rest, SubSeq(acc, 1, Len(acc) - 1), absolute)
           ELSE NormComps(rest, acc, absolute)

\* os.path.normpath(p)
Normpath(p) ==
  IF p = <<>> THEN CurDir
  ELSE LET absolute == StartsWith(p, <<Sep>>)
           joined == JoinWith(NormComps(SplitOn(p, Sep), <<>>, absolute), <<Sep>>)
           res == IF absolute THEN <<Sep>> \o joined ELSE joined
       IN  IF res = <<>> THEN CurDir ELSE res

\* os.path.abspath(p)
Abspath(p) == Normpath(IF StartsWith(p, <<Sep>>) THEN p ELSE PathJoin(Cwd, p))

RECURSIVE CommonLen(_, _)
CommonLen(a, b) ==
  IF a = <<>> \/ b = <<>> \/ a[1] # b[1] THEN 0
  ELSE 1 + CommonLen(Tail(a), Tail(b))

\* os.path.relpath(path, start)
Relpath(path, start) ==
  LET start_list == NonEmpty(SplitOn(Abspath(start), Sep))
      path_list == NonEmpty(SplitOn(Abspath(path), Sep))
      i == CommonLen(start_list, path_list)
      rel_list == [k \in 1..(Len(start_list) - i) |-> ParDir]
                    \o SubSeq(path_list, i + 1, Len(path_list))
  IN  IF rel_list = <<>> THEN CurDir ELSE JoinWith(rel_list, <<Sep>>)

---------------------------------------------------------------------------
(* The inputs of a run: the templates directory and the YAML document *)

\* args.templates_dir
root_dir == <<"t">>

\* names of first-level subdirectories: foo, Foo and foobar in short
KindNames == {<<"f">>, <<"F">>, <<"f", "b">>}

ExtJ2 == <<".", "j", "2">>
ExtJinja2 == <<".", "j", "i", "n", "j", "a", "2">>

\* line 18
JINJA2_FILE_EXTENSIONS == {ExtJ2, ExtJinja2}

\* a file of the templates directory: the directories from root_dir down to
\* it, then its name
CandidateFiles ==
  { <<<<"r">>>>,
    <<<<"f">>, <<"x">>>>,
    <<<<"f">>, <<"x">> \o ExtJ2>>,
    <<<<"f">>, <<"x">> \o ExtJ2 \o ExtJinja2>>,
    <<<<"f">>, <<"s">>, <<"x">> \o ExtJ2>>,
    <<<<"f", "b">>, <<"x">> \o ExtJ2>>,
    <<<<"F">>, <<"x">> \o ExtJ2>> }

\* .j2i_ignore: whether it exists and what f.readlines() returns
IgnoreFiles ==
  { [exists |-> FALSE, lines |-> <<>>],
    [exists |-> TRUE, lines |-> << <<"\n">> >>],
    [exists |-> TRUE, lines |-> << <<"f", "/", "x", "\n">> >>] }

\* the states of the templates directory
FileSystems ==
  { [files |-> fl, ignore |-> ig] :
      fl \in {S \in SUBSET CandidateFiles : Cardinality(S) <= MaxFiles},
      ig \in IgnoreFiles }

\* top-level keys of the YAML document
KeyA == <<"a">>
KeyB == <<"b">>

AttrKeyname == <<"keyname">>
AttrKind == <<"kind">>

\* the fields of a tagged mapping
FieldSets ==
  { {},
    {AttrKind},
    {AttrKeyname, Append(AttrKeyname, "_"), <<"x">>} }

\* the value every YAML field holds
YamlValue == <<"v">>

Tag(kind) == <<"!">> \o kind

\* a top-level value: a plain scalar, a tagged mapping, or an alias of the
\* mapping anchored at key a
NodesA ==
  {[type |-> "plain", tag |-> <<>>, fields |-> {}]}
    \cup {[type |-> "tagged", tag |-> Tag(<<"f">>), fields |-> fs] : fs \in FieldSets}
    \cup {[type |-> "tagged", tag |-> Tag(k), fields |-> {}] : k \in KindNames}

NodesB ==
  {[type |-> "alias", tag |-> <<>>, fields |-> {}],
   [type |-> "tagged", tag |-> Tag(<<"f">>), fields |-> {}]}

\* the YAML documents: key a alone, or keys a and b
Documents ==
  {[k \in {KeyA} |-> na] : na \in NodesA}
    \cup {[k \in {KeyA, KeyB} |-> IF k = KeyA THEN na ELSE nb] :
            na \in {n \in NodesA : n.type = "tagged"}, nb \in NodesB}

\* args.output_file
OutputFiles == {<<"o">>, <<"o", ".", "z", "i", "p">>}

---------------------------------------------------------------------------
(* get_all_templates, lines 151-193 *)

\* the string os.walk gives for the directory reached through dirs
WalkPath(dirs) == JoinWith(<<root_dir>> \o dirs, <<Sep>>)

DirsOf(file) == SubSeq(file, 1, Len(file) - 1)

NameOf(file) == file[Len(file)]

\* line 191
FilePath(file) == PathJoin(WalkPath(DirsOf(file)), NameOf(file))

\* line 185: the subdirectories of root_dir
FirstLevelDirs(fs) == {f[1] : f \in {g \in fs.files : Len(g) >= 2}}

\* lines 189-190
BelongsToKey(path, key) == StartsWith(path, PathJoin(root_dir, key))

\* lines 183-192: the files in the order os.walk yields them; the order is
\* the directory listing order, fixed here as one enumeration
WalkOrder(fs) == SeqOf(fs.files)

RECURSIVE FilesOfKey(_, _)
FilesOfKey(walk, key) ==
  IF walk = <<>> THEN <<>>
  ELSE (IF BelongsToKey(WalkPath(DirsOf(walk[1])), key)
        THEN <<FilePath(walk[1])>> ELSE <<>>)
       \o FilesOfKey(Tail(walk), key)

\* a dict: the keys are those setdefault created
get_all_templates(fs) ==
  LET keys == {k \in FirstLevelDirs(fs) : FilesOfKey(WalkOrder(fs), k) # <<>>}
  IN  [k \in keys |-> FilesOfKey(WalkOrder(fs), k)]

---------------------------------------------------------------------------
(* get_files_to_be_ignored, lines 126-137 *)

get_files_to_be_ignored(fs) ==
  IF ~fs.ignore.exists THEN <<>>
  ELSE [i \in 1..Len(fs.ignore.lines) |-> PathJoin(root_dir, Strip(fs.ignore.lines[i]))]

\* lines 96-99
should_ignore(template, to_ignore) ==
  \E i \in 1..Len(to_ignore) : StartsWith(template, to_ignore[i])

---------------------------------------------------------------------------
(* add_attr_to_obj, lines 140-148; an object's attributes are a function *)
(* from attribute names to values                                        *)

\* line 145: setattr(obj, attr, value)
SetAttr(attrs, attr, value) ==
  [a \in DOMAIN attrs \cup {attr} |-> IF a = attr THEN value ELSE attrs[a]]

\* setattr without the hasattr test of line 144
add_attr_overwrite(attrs, attr, value) == SetAttr(attrs, attr, value)

\* lines 144-148
RECURSIVE add_attr_rec(_, _, _)
add_attr_rec(attrs, attr, value) ==
  IF attr \notin DOMAIN attrs THEN SetAttr(attrs, attr, value)
  ELSE add_attr_rec(attrs, Append(attr, "_"), value)

add_attr_to_obj(attrs, attr, value) == add_attr_rec(attrs, attr, value)

---------------------------------------------------------------------------
(* gen_output_file_path, lines 318-333 *)

gen_output_file_path(obj_kind, obj_name, template) ==
  LET common_path == PathJoin(root_dir, obj_kind)
      rel_path == Relpath(template, common_path)
      file_path == PathJoin(obj_name, rel_path)
      split == Splitext(file_path)
  IN  IF split[2] \in JINJA2_FILE_EXTENSIONS THEN split[1] ELSE file_path

---------------------------------------------------------------------------
(* write_content, lines 116-123 *)

ExtZip == <<".", "z", "i", "p">>

\* splitext without the rule for leading dots
Splitext_lastdot(p) ==
  LET sepIndex == RFind(p, Sep)
      dotIndex == RFind(p, ".")
  IN  IF dotIndex > sepIndex
      THEN <<SubSeq(p, 1, dotIndex - 1), SubSeq(p, dotIndex, Len(p))>>
      ELSE <<p, <<>>>>

\* line 118 with that splitext
OutputExt_lastdot(output_file_path) == Splitext_lastdot(output_file_path)[2]

\* line 118
OutputExt(output_file_path) == Splitext(output_file_path)[2]

\* lines 118-120 and 123: the path the content is written to
ForceZip(output_file_path) ==
  IF OutputExt(output_file_path) # ExtZip
  THEN output_file_path \o ExtZip
  ELSE output_file_path

---------------------------------------------------------------------------
(* The state of the process *)

VARIABLES
  pc,             \* where main() is
  run,            \* the number of main() invocations so far
  fs,             \* the templates directory of this invocation
  constructors,   \* yaml.Constructor's tag constructors (line 21, line 54)
  templates,      \* get_all_templates' result
  params,         \* yaml.load's result: key -> value
  heap,           \* the Obj instances: identity -> class name and attributes
  to_ignore,      \* get_files_to_be_ignored's result
  injectLeft,     \* the keys of objs the first loop has yet to visit
  renderLeft,     \* the keys of objs the second loop has yet to visit
  cur,            \* the second loop's object: its name, <<>> between objects
  idx,            \* the position in cur's template list
  content_store,  \* output path -> what to store
  log,            \* the templates the second loop has handled, and how
  error,          \* the message of the exception raised, "" without one
  archive,        \* create_zip's result
  wrote,          \* whether this invocation called write_content
  output_file,    \* args.output_file, write_content's argument
  output_file_path, \* the path write_content wrote the archive to
  again,          \* the result of forcing the extension on that result
  wdone,          \* the steps SpecWrite has taken
  if_s,           \* j2_to_linux_if_name's argument
  if_h,           \* the SHA-256 of the argument, as an integer
  if_r,           \* j2_to_linux_if_name's result
  if_done         \* "no", or how the filter ended

pipeVars ==
  <<pc, run, fs, constructors, templates, params, heap, to_ignore, injectLeft,
    renderLeft, cur, idx, content_store, log, error, archive, wrote, output_file,
    output_file_path>>

writeVars == <<again, wdone>>

ifVars == <<if_s, if_h, if_r, if_done>>

vars == <<pipeVars, writeVars, ifVars>>

NoName == <<>>

EmptyFs == [files |-> {}, ignore |-> [exists |-> FALSE, lines |-> <<>>]]

\* the locals of main() and gen_content() before they are assigned
LocalsInit ==
  /\ fs = EmptyFs
  /\ templates = <<>>
  /\ params = <<>>
  /\ heap = <<>>
  /\ to_ignore = <<>>
  /\ injectLeft = {}
  /\ renderLeft = {}
  /\ cur = NoName
  /\ idx = 0
  /\ content_store = <<>>
  /\ log = {}
  /\ error = ""
  /\ archive = {}
  /\ wrote = FALSE
  /\ output_file_path = <<>>

PipeInit ==
  /\ pc = "idle"
  /\ run = 0
  /\ constructors = {}
  /\ output_file = <<>>
  /\ LocalsInit

WriteIdle ==
  /\ again = <<>>
  /\ wdone = 0

IfIdle ==
  /\ if_s = <<>>
  /\ if_h = 0
  /\ if_r = <<>>
  /\ if_done = "no"

---------------------------------------------------------------------------
(* yaml.load with the registered constructors, lines 57-58 and 310-315 *)

\* the mapping a top-level node stands for: an alias stands for the node
\* anchored at key a
Resolved(doc, k) == IF doc[k].type = "alias" THEN doc[KeyA] ELSE doc[k]

Identity(doc, k) == IF doc[k].type = "alias" THEN KeyA ELSE k

\* whether the loader calls obj_constructor for the node
Constructs(node, registry) == node.type = "tagged" /\ node.tag \in registry

\* lines 311-315
obj_constructor(node) ==
  [cls |-> LStripSet(node.tag, {"!"}),
   attrs |-> [a \in node.fields |-> YamlValue]]

LoadHeap(doc, registry) ==
  [k \in {j \in DOMAIN doc : Constructs(doc[j], registry)} |-> obj_constructor(doc[k])]

LoadParams(doc, registry) ==
  [k \in DOMAIN doc |->
     [isObj |-> Constructs(Resolved(doc, k), registry), ref |-> Identity(doc, k)]]

\* line 80
Objs == {k \in DOMAIN params : params[k].isObj}

---------------------------------------------------------------------------
(* main, lines 47-65 *)

\* lines 49-50
MainDiscover ==
  /\ pc = "idle"
  /\ run < MaxRuns
  /\ run' = run + 1
  /\ \E f \in FileSystems :
       /\ fs' = f
       /\ templates' = get_all_templates(f)
       /\ IF get_all_templates(f) = <<>>
          THEN pc' = "raised" /\ error' = "No templates found"
          ELSE pc' = "register" /\ error' = ""
  /\ UNCHANGED <<constructors, params, heap, to_ignore, injectLeft, renderLeft,
                 cur, idx, content_store, log, archive, wrote, output_file, output_file_path>>
  /\ UNCHANGED <<writeVars, ifVars>>

\* lines 57-58: the input file cannot be opened or is not YAML
MainLoadFails ==
  /\ pc = "load"
  /\ pc' = "raised"
  /\ error' = "load"
  /\ UNCHANGED <<run, fs, constructors, templates, params, heap, to_ignore,
                 injectLeft, renderLeft, cur, idx, content_store, log, archive,
                 wrote, output_file, output_file_path>>
  /\ UNCHANGED <<writeVars, ifVars>>

\* lines 53-54
MainRegister ==
  /\ pc = "register"
  /\ constructors' = constructors \cup {Tag(k) : k \in DOMAIN templates}
  /\ pc' = "load"
  /\ UNCHANGED <<run, fs, templates, params, heap, to_ignore, injectLeft,
                 renderLeft, cur, idx, content_store, log, error, archive, wrote,
                 output_file, output_file_path>>
  /\ UNCHANGED <<writeVars, ifVars>>

\* lines 57-58
MainLoad ==
  /\ pc = "load"
  /\ \E doc \in Documents :
       /\ params' = LoadParams(doc, constructors)
       /\ heap' = LoadHeap(doc, constructors)
  /\ pc' = "gen"
  /\ UNCHANGED <<run, fs, constructors, templates, to_ignore, injectLeft,
                 renderLeft, cur, idx, content_store, log, error, archive, wrote,
                 output_file, output_file_path>>
  /\ UNCHANGED <<writeVars, ifVars>>

---------------------------------------------------------------------------
(* gen_content, lines 68-113 *)

\* lines 71-80: the directory is indexed again, the ignore list is read and
\* the objects are picked out of the parameters
GenStart ==
  /\ pc = "gen"
  /\ templates' = get_all_templates(fs)
  /\ to_ignore' = get_files_to_be_ignored(fs)
  /\ injectLeft' = Objs
  /\ renderLeft' = Objs
  /\ IF get_all_templates(fs) = <<>>
     THEN pc' = "raised" /\ error' = "No templates found"
     ELSE pc' = (IF Objs = {} THEN "render" ELSE "inject") /\ error' = ""
  /\ UNCHANGED <<run, fs, constructors, params, heap, cur, idx, content_store,
                 log, archive, wrote, output_file, output_file_path>>
  /\ UNCHANGED <<writeVars, ifVars>>

\* lines 85-88
InjectAttrs(obj, name) ==
  add_attr_to_obj(add_attr_to_obj(obj.attrs, AttrKeyname, name), AttrKind, obj.cls)

\* lines 84-88: one iteration of the first loop; dict order is arbitrary
Inject ==
  /\ pc = "inject"
  /\ \E name \in injectLeft :
       LET ref == params[name].ref
       IN  /\ heap' = [heap EXCEPT ![ref].attrs = InjectAttrs(heap[ref], name)]
           /\ injectLeft' = injectLeft \ {name}
           /\ pc' = IF injectLeft = {name} THEN "render" ELSE "inject"
  /\ UNCHANGED <<run, fs, constructors, templates, params, to_ignore, renderLeft,
                 cur, idx, content_store, log, error, archive, wrote, output_file, output_file_path>>
  /\ UNCHANGED <<writeVars, ifVars>>

\* line 93
KindOf(name) == Lower(heap[params[name].ref].cls)

\* line 94: templates.get(kind, [])
TemplatesGet(kind) == IF kind \in DOMAIN templates THEN templates[kind] ELSE <<>>

\* lines 92-94: the second loop takes its next object
RenderNextObj ==
  /\ pc = "render"
  /\ cur = NoName
  /\ \E name \in renderLeft :
       /\ renderLeft' = renderLeft \ {name}
       /\ IF TemplatesGet(KindOf(name)) = <<>>
          THEN cur' = NoName /\ idx' = 0
          ELSE cur' = name /\ idx' = 1
  /\ UNCHANGED <<pc, run, fs, constructors, templates, params, heap, to_ignore,
                 injectLeft, content_store, log, error, archive, wrote, output_file, output_file_path>>
  /\ UNCHANGED <<writeVars, ifVars>>

\* what parse_template (lines 196-226) can do with a template: return text,
\* return the empty string, or raise
RenderOutcomes == {"text", "empty", "raise"}

\* line 111
Store(path, entry) ==
  [q \in DOMAIN content_store \cup {path} |->
     IF q = path THEN entry ELSE content_store[q]]

\* lines 94-111: one iteration of the inner loop
RenderTemplate ==
  /\ pc = "render"
  /\ cur # NoName
  /\ LET kind == KindOf(cur)
         template == TemplatesGet(kind)[idx]
         file_path == gen_output_file_path(kind, cur, template)
         last == idx = Len(TemplatesGet(kind))
         step == /\ cur' = (IF last THEN NoName ELSE cur)
                 /\ idx' = (IF last THEN 0 ELSE idx + 1)
     IN  IF should_ignore(template, to_ignore)
         THEN /\ content_store' =
                   Store(file_path, [type |-> "file", template |-> template, obj |-> cur])
              /\ log' = log \cup {[obj |-> cur, kind |-> kind, template |-> template,
                                   how |-> "copied", path |-> file_path]}
              /\ step
              /\ UNCHANGED <<pc, error>>
         ELSE \E outcome \in RenderOutcomes :
                CASE outcome = "raise" ->
                       /\ pc' = "raised"
                       /\ error' = "render"
                       /\ UNCHANGED <<cur, idx, content_store, log>>
                  [] outcome = "empty" ->
                       /\ log' = log \cup {[obj |-> cur, kind |-> kind,
                                            template |-> template,
                                            how |-> "empty", path |-> file_path]}
                       /\ step
                       /\ UNCHANGED <<pc, error, content_store>>
                  [] OTHER ->
                       /\ content_store' =
                            Store(file_path,
                                  [type |-> "str", template |-> template, obj |-> cur])
                       /\ log' = log \cup {[obj |-> cur, kind |-> kind,
                                            template |-> template,
                                            how |-> "rendered", path |-> file_path]}
                       /\ step
                       /\ UNCHANGED <<pc, error>>
  /\ UNCHANGED <<run, fs, constructors, templates, params, heap, to_ignore,
                 injectLeft, renderLeft, archive, wrote, output_file, output_file_path>>
  /\ UNCHANGED <<writeVars, ifVars>>

\* ZipFile.write's archive name: normalised, without leading separators
ArcName(name) == LStripSet(Normpath(name), {Sep})

\* lines 336-355: one archive entry per key of content_store
create_zip(store) ==
  { [name |-> IF store[q].type = "file" THEN ArcName(q) ELSE q,
     type |-> store[q].type,
     template |-> store[q].template,
     obj |-> store[q].obj] : q \in DOMAIN store }

\* lines 112-113
GenFinish ==
  /\ pc = "render"
  /\ cur = NoName
  /\ renderLeft = {}
  /\ IF content_store = <<>>
     THEN pc' = "raised" /\ error' = "No content could be generated"
            /\ UNCHANGED archive
     ELSE pc' = "else" /\ archive' = create_zip(content_store) /\ UNCHANGED error
  /\ UNCHANGED <<run, fs, constructors, templates, params, heap, to_ignore,
                 injectLeft, renderLeft, cur, idx, content_store, log, wrote, output_file, output_file_path>>
  /\ UNCHANGED <<writeVars, ifVars>>

\* write_content in a finally branch: it would run after an exception too
WriteReached_finally == pc \in {"else", "raised"}

\* lines 61-64: write_content runs in the else branch of the try statement
WriteReached == pc = "else"

\* line 64 and lines 116-123
MainWrite ==
  /\ WriteReached
  /\ \E P \in OutputFiles :
       /\ output_file' = P
       /\ output_file_path' = ForceZip(P)
  /\ wrote' = TRUE
  /\ pc' = "done"
  /\ UNCHANGED <<run, fs, constructors, templates, params, heap, to_ignore,
                 injectLeft, renderLeft, cur, idx, content_store, log, error,
                 archive>>
  /\ UNCHANGED <<writeVars, ifVars>>

\* main() returns or raises; the next invocation starts with fresh locals,
\* the module-level yaml object is what is left
MainReturn ==
  /\ pc \in {"done", "raised"}
  /\ run < MaxRuns
  /\ pc' = "idle"
  /\ fs' = EmptyFs
  /\ templates' = <<>>
  /\ params' = <<>>
  /\ heap' = <<>>
  /\ to_ignore' = <<>>
  /\ injectLeft' = {}
  /\ renderLeft' = {}
  /\ cur' = NoName
  /\ idx' = 0
  /\ content_store' = <<>>
  /\ log' = {}
  /\ error' = ""
  /\ archive' = {}
  /\ wrote' = FALSE
  /\ output_file' = <<>>
  /\ output_file_path' = <<>>
  /\ UNCHANGED <<run, constructors>>
  /\ UNCHANGED <<writeVars, ifVars>>

PipeNext ==
  \/ MainDiscover
  \/ MainRegister
  \/ MainLoad
  \/ MainLoadFails
  \/ GenStart
  \/ Inject
  \/ RenderNextObj
  \/ RenderTemplate
  \/ GenFinish
  \/ MainWrite
  \/ MainReturn

Init == PipeInit /\ WriteIdle /\ IfIdle

Next == PipeNext

Spec == Init /\ [][Next]_vars

---------------------------------------------------------------------------
(* write_content on its own: every requested path up to MaxPathLen *)

PathChars == {".", "z", "i", "p", "/"}

RequestedPaths == UNION {[1..n -> PathChars] : n \in 0..MaxPathLen}

InitWrite ==
  /\ pc = "idle"
  /\ run = 0
  /\ constructors = {}
  /\ output_file \in RequestedPaths
  /\ LocalsInit
  /\ WriteIdle
  /\ IfIdle

\* lines 116-123
WriteContent ==
  /\ wdone = 0
  /\ output_file_path' = ForceZip(output_file)
  /\ wrote' = TRUE
  /\ wdone' = 1
  /\ UNCHANGED <<pc, run, fs, constructors, templates, params, heap, to_ignore,
                 injectLeft, renderLeft, cur, idx, content_store, log, error,
                 archive, output_file, again, ifVars>>

\* the returned path given as the requested path of another call
WriteAgain ==
  /\ wdone = 1
  /\ again' = ForceZip(output_file_path)
  /\ wdone' = 2
  /\ UNCHANGED <<pipeVars, ifVars>>

NextWrite == WriteContent \/ WriteAgain

SpecWrite == InitWrite /\ [][NextWrite]_vars

---------------------------------------------------------------------------
(* j2_to_linux_if_name, lines 288-303 *)

\* line 295
IfNameMax == 15
\* line 299
IfPrefixLen == 6
\* line 298
HashModulus == 1000000000

\* the characters of the arguments
IfChars == {"a", "Z", "9", "-", "_", "!", " "}


Digit == <<"0", "1", "2", "3", "4", "5", "6", "7", "8", "9">>

\* str.isalnum() of one character
IsAlnum(c) == c \in {"a", "Z"} \/ c \in Range(Digit)

\* line 292
KeepsChar(c) == IsAlnum(c) \/ c \in {"-", "_"}

\* lines 290-293
RECURSIVE Sanitize(_)
Sanitize(s) ==
  IF s = <<>> THEN <<>>
  ELSE (IF KeepsChar(s[1]) THEN <<s[1]>> ELSE <<>>) \o Sanitize(Tail(s))


\* str(n) of a non-negative integer
RECURSIVE DecStr(_)
DecStr(n) ==
  IF n < 10 THEN <<Digit[n + 1]>>
  ELSE Append(DecStr(n \div 10), Digit[(n % 10) + 1])

\* line 299 taking one character more
IfPrefix_seven(res) == SubSeq(res, 1, IfPrefixLen + 1)

\* line 299: res[:6]
IfPrefix(res) == SubSeq(res, 1, IfPrefixLen)

\* lines 298-299: h is the SHA-256 of s as an integer
Shortened(res, h) == IfPrefix(res) \o DecStr(h % HashModulus)

\* values of the digest: the function is not computed, every value it could
\* take stands for it
HashValues == {0, 7, 999999999, 1000000000, 1000000007, 2147483647}

IfPrefixes == UNION {[1..n -> IfChars] : n \in 0..MaxPrefixLen}

IfSuffixes == {<<>>} \cup {<<c>> : c \in IfChars}

\* the arguments: a free prefix, a run of alphanumerics, a free last character
IfInputs ==
  { p \o [k \in 1..n |-> "a"] \o q : p \in IfPrefixes, n \in 0..MaxPad, q \in IfSuffixes }

InitIfName ==
  /\ PipeInit
  /\ WriteIdle
  /\ if_s \in IfInputs
  /\ if_h = 0
  /\ if_r = <<>>
  /\ if_done = "no"

\* lines 295-303: the short branch
IfNameShort ==
  /\ if_done = "no"
  /\ Len(Sanitize(if_s)) <= IfNameMax
  /\ if_r' = Sanitize(if_s)
  /\ if_done' = "returned"
  /\ UNCHANGED <<pipeVars, writeVars, if_s, if_h>>

\* lines 295-301: the long branch, with its assertion
IfNameLong ==
  /\ if_done = "no"
  /\ Len(Sanitize(if_s)) > IfNameMax
  /\ \E h \in HashValues :
       /\ if_h' = h
       /\ if_r' = Shortened(Sanitize(if_s), h)
       /\ if_done' = IF Len(Shortened(Sanitize(if_s), h)) <= IfNameMax
                     THEN "returned" ELSE "AssertionError"
  /\ UNCHANGED <<pipeVars, writeVars, if_s>>

NextIfName == IfNameShort \/ IfNameLong

SpecIfName == InitIfName /\ [][NextIfName]_vars

---------------------------------------------------------------------------
(* The claims *)

\* the class name of the object a top-level key holds
ClassOf(name) == heap[params[name].ref].cls

\* the second loop of gen_content has run to its end
RenderLoopDone ==
  pc \in {"else", "done"} \/ error = "No content could be generated"

\* attr followed by n underscores
Chain(attr, n) == attr \o [k \in 1..n |-> "_"]

\* the places of path p in list l
Places(l, p) == {i \in 1..Len(l) : l[i] = p}

\* C1: get_all_templates lists a file under kind K exactly when the file
\* lies inside the first-level subdirectory K of root_dir, and then once;
\* files directly in root_dir are listed under no kind.
C1_IndexedUnderItsKindOnly ==
  pc # "idle" =>
    \A K \in KindNames : \A F \in fs.files :
      LET listed == IF K \in DOMAIN templates
                    THEN Places(templates[K], FilePath(F)) ELSE {}
      IN  IF Len(F) >= 2 /\ F[1] = K
          THEN Cardinality(listed) = 1
          ELSE listed = {}

\* C2: once the render loop is over, the templates handled for an object
\* built by tag !K, K a discovered kind, are exactly those indexed under K.
C2_ObjectGetsTemplatesOfItsKind ==
  RenderLoopDone =>
    \A name \in Objs :
      ClassOf(name) \in DOMAIN templates =>
        {l.template : l \in {m \in log : m.obj = name}}
          = Range(templates[ClassOf(name)])

\* the pairs (top-level object, template of that object's kind)
Pairs ==
  UNION { {<<name, t>> : t \in Range(TemplatesGet(KindOf(name)))} : name \in Objs }

\* C3: the archive of a successful run holds exactly one entry for each
\* pair (object, template of its kind), no other entry, and no two entries
\* under the same archive path.
C3_OneEntryPerPair ==
  pc \in {"else", "done"} =>
    /\ \A pr \in Pairs :
         Cardinality({e \in archive : e.obj = pr[1] /\ e.template = pr[2]}) = 1
    /\ \A e \in archive : <<e.obj, e.template>> \in Pairs
    /\ \A e1 \in archive : \A e2 \in archive : e1.name = e2.name => e1 = e2

\* C4: every path gen_output_file_path returns lies inside the directory
\* named after the object, has no '..' component, and does not end in
\* '.j2' or '.jinja2'.
C4_OutputPathInsideObjectDir ==
  \A l \in log :
    l.how # "empty" =>
      /\ StartsWith(l.path, l.obj \o <<Sep>>)
      /\ ParDir \notin Range(SplitOn(l.path, Sep))
      /\ ~EndsWith(l.path, ExtJ2)
      /\ ~EndsWith(l.path, ExtJinja2)

\* a line of .j2i_ignore that names something
NamingLines == {i \in 1..Len(fs.ignore.lines) : Strip(fs.ignore.lines[i]) # <<>>}

\* C5: a template is copied verbatim exactly when its path starts with
\* templates_dir joined with a line of .j2i_ignore; without the file, or
\* with blank lines only, every template is rendered.
C5_CopiedIffListed ==
  \A l \in log :
    (l.how = "copied") <=>
      (/\ fs.ignore.exists
       /\ \E i \in NamingLines :
            StartsWith(l.template, PathJoin(root_dir, Strip(fs.ignore.lines[i]))))

\* the requested path has a file name that ends in '.zip' after at least
\* one character other than a dot
NamedZip(P) ==
  /\ EndsWith(P, ExtZip)
  /\ \E k \in (RFind(P, Sep) + 1)..(Len(P) - Len(ExtZip)) : P[k] # "."

\* C6, as stated: the written path ends with '.zip', is P when P ends with
\* '.zip' and P + '.zip' otherwise, and forcing the extension again changes
\* nothing.
C6_AsStated ==
  /\ wdone >= 1 =>
       /\ EndsWith(output_file_path, ExtZip)
       /\ output_file_path = IF EndsWith(output_file, ExtZip)
                             THEN output_file ELSE output_file \o ExtZip
  /\ wdone = 2 => again = output_file_path

\* the file name of the requested path has a character other than a dot
HasName(P) == \E k \in (RFind(P, Sep) + 1)..Len(P) : P[k] # "."

\* C6, amended: the written path ends with '.zip'; it is P when P's file
\* name ends in '.zip' after at least one character other than a dot, and
\* P + '.zip' otherwise; forcing the extension again changes nothing when
\* P's file name has a character other than a dot, and appends '.zip' once
\* more when it has none.
C6_ForcesZipExtension ==
  /\ wdone >= 1 =>
       /\ EndsWith(output_file_path, ExtZip)
       /\ output_file_path = IF NamedZip(output_file)
                             THEN output_file ELSE output_file \o ExtZip
  /\ wdone = 2 =>
       again = IF HasName(output_file)
               THEN output_file_path ELSE output_file_path \o ExtZip

\* a path that ends with '.zip' and still gets the extension appended
C6_Witness ==
  /\ wdone = 2
  /\ EndsWith(output_file, ExtZip)
  /\ HasName(output_file)
  /\ output_file_path = output_file \o ExtZip
  /\ again = output_file_path

\* C7: once the document is loaded, the tags the loader builds objects for
\* are exactly the kinds found in this invocation's templates directory.
C7_TagsAreTheCurrentKinds ==
  pc \in {"load", "gen", "inject", "render", "else", "done"} =>
    constructors = {Tag(k) : k \in DOMAIN templates}

\* the first free name among attr, attr_, attr__, ... holds value
FirstFreeHolds(old, new, attr, value) ==
  \E n \in 0..Cardinality(DOMAIN old) :
    /\ \A k \in 0..(n - 1) : Chain(attr, k) \in DOMAIN old
    /\ Chain(attr, n) \notin DOMAIN old
    /\ Chain(attr, n) \in DOMAIN new
    /\ new[Chain(attr, n)] = value

\* C8: an iteration of the first loop of gen_content stores the key name
\* and the kind of one object under the first free names of the chains
\* keyname, keyname_, ... and kind, kind_, ..., adds nothing else and keeps
\* the value of every attribute the object had; no template is handled
\* before every object holds its key name and kind.
C8_InjectionKeepsAttributes ==
  /\ [][pc = "inject" =>
          \E name \in injectLeft :
            LET ref == params[name].ref
                old == heap[ref].attrs
                new == heap'[ref].attrs
            IN  /\ injectLeft' = injectLeft \ {name}
                /\ \A a \in DOMAIN old : a \in DOMAIN new /\ new[a] = old[a]
                /\ Cardinality(DOMAIN new) = Cardinality(DOMAIN old) + 2
                /\ FirstFreeHolds(old, new, AttrKeyname, name)
                /\ FirstFreeHolds(old, new, AttrKind, heap[ref].cls)
                /\ \A o \in DOMAIN heap \ {ref} : heap'[o] = heap[o]]_vars
  /\ [](log # {} \/ cur # NoName =>
          \A name \in Objs :
            LET attrs == heap[params[name].ref].attrs
            IN  /\ \E a \in DOMAIN attrs : attrs[a] = name
                /\ \E a \in DOMAIN attrs : attrs[a] = ClassOf(name))

\* an object whose YAML fields keyname and keyname_ forced the key name
\* into keyname__, with the fields kept
C8_Witness ==
  /\ pc = "render"
  /\ log # {}
  /\ \E o \in DOMAIN heap :
       /\ Chain(AttrKeyname, 2) \in DOMAIN heap[o].attrs
       /\ heap[o].attrs[Chain(AttrKeyname, 2)] = KeyA
       /\ heap[o].attrs[AttrKeyname] = YamlValue
       /\ heap[o].attrs[Chain(AttrKeyname, 1)] = YamlValue

\* an alphanumeric, '-' or '_'
Allowed(c) == c \in {"a", "Z", "-", "_"} \cup Range(Digit)

\* the number a string of decimal digits denotes
RECURSIVE DecValue(_)
DecValue(d) ==
  IF d = <<>> THEN 0
  ELSE 10 * DecValue(SubSeq(d, 1, Len(d) - 1))
         + (CHOOSE v \in 0..9 : Digit[v + 1] = d[Len(d)])

\* C9: j2_to_linux_if_name returns (its assertion never fails) at most 15
\* characters, all alphanumerics, '-' or '_': the sanitized argument when
\* that has at most 15 characters, else its first 6 characters followed by
\* the decimal form of the digest modulo 10^9.
C9_IfNameFits ==
  if_done # "no" =>
    LET san == SelectSeq(if_s, Allowed)
    IN  /\ if_done = "returned"
        /\ Len(if_r) <= 15
        /\ \A i \in 1..Len(if_r) : Allowed(if_r[i])
        /\ Len(san) <= 15 => if_r = san
        /\ Len(san) > 15 =>
             /\ SubSeq(if_r, 1, 6) = SubSeq(san, 1, 6)
             /\ LET digits == SubSeq(if_r, 7, Len(if_r))
                IN  /\ digits # <<>>
                    /\ \A i \in 1..Len(digits) : digits[i] \in Range(Digit)
                    /\ (Len(digits) > 1 => digits[1] # "0")
                    /\ DecValue(digits) = if_h % 1000000000

\* a long argument with a character that is dropped, shortened to exactly
\* 15 characters
C9_Witness ==
  /\ if_done = "returned"
  /\ Len(SelectSeq(if_s, Allowed)) > 15
  /\ Len(SelectSeq(if_s, Allowed)) < Len(if_s)
  /\ Len(if_r) = 15

\* C10: write_content is called only in a run that raised nothing, found
\* templates and generated content; a run that raised wrote no file.
C10_WritesOnlyAfterSuccess ==
  /\ wrote => (pc = "done" /\ error = "" /\ templates # <<>> /\ content_store # <<>>)
  /\ error # "" => (~wrote /\ output_file_path = <<>>)
  /\ output_file_path # <<>> => wrote

\* a run that found templates and objects but generated no content
C10_Witness ==
  /\ pc = "raised"
  /\ error = "No content could be generated"
  /\ Objs # {}
  /\ ~wrote
  /\ output_file_path = <<>>

====
